---- MODULE Spec2Model ----
(***************************************************************************)
(* Model of the force-statistics -> PMF pipeline of postdoc_scripts:       *)
(*   constrained_force_stats.py  (REPORT parser, aggregator, statistics,   *)
(*                                report writer)                           *)
(*   pmf_analysis.py             (report reader, table assembly, area      *)
(*                                integration)                             *)
(* Each script is a sequential program; its position is a pc variable.     *)
(* Real numbers are exact rationals [num, den] with den > 0.  An optional  *)
(* value (Python None) is the empty set, a present value v is {v}.         *)
(***************************************************************************)
EXTENDS Integers, Sequences, FiniteSets, TLC

VARIABLES
    \* ---- read_simulation_data (constrained_force_stats.py:13-33)
    report,                             \* the lines of ./<folder>/REPORT, each a token sequence
    max_steps,                          \* None or {B}
    line_no,                            \* number of lines consumed by the for loop
    lambda_values,
    force_values_on_constrained_bond,
    md_steps,
    rs_pc,                              \* "scan" | "returned" | "raised"
    \* ---- cumulative_force_analysis (constrained_force_stats.py:40-52)
    force_values,                       \* the series given to the function
    cumulative_intervals,
    cumulative_means,
    cumulative_stds,
    cfa_pc,                             \* "call" | "returned"
    \* ---- main of constrained_force_stats.py (lines 54-101)
    iconst_lines,                       \* line count of the file ICONST
    incar_potim,                        \* INCAR holds a parseable POTIM line
    seg_dirs,                           \* the directories seg* and their REPORT files
    folders,                            \* sorted(glob('seg*'))
    folder_idx,                         \* folders already visited by the for loop
    num_constraints,
    all_lambda_values,
    all_cv_values,
    total_md_steps,
    lambda_values_per_cv,
    mean_force,
    std_dev,
    output_file,                        \* force_stats_report.txt: None or {lines}
    main_pc,                            \* "start" | "loop" | "stats" | "written" | "exited" | "raised"
    \* ---- module level of pmf_analysis.py (lines 79-102)
    pmf_dirs,                           \* the matching directories in glob order: None or {report lines}
    target_steps,                       \* None or {steps}
    pmf_idx,                            \* directories already visited by the for loop
    data,                               \* the four columns of the dictionary `data`
    df,                                 \* None, or {rows} once the DataFrame is built and sorted
    pmf_pc,                             \* "loop" | "assembled" | "raised"
    \* ---- calculate_area (pmf_analysis.py:42-76)
    area_x,                             \* the argument x (bond lengths, ascending)
    area_y,                             \* the argument y (forces)
    area_out,                           \* None, or {the result of the call}
    area_pc,                            \* "call" | "returned" | "raised"
    \* ---- module level of pmf_analysis.py, result reporting (lines 100-128)
    pmf_x,                              \* x: the bond-length column of the sorted table
    pmf_y,                              \* y: the mean-force column
    pmf_std_dev,                        \* std_dev: the standard-deviation column
    activation_barrier,                 \* None while unassigned, else {area}, area being None or {number}
    area_upper,
    area_lower,
    barrier_roots,                      \* roots of the call on the mean curve
    results_string,                     \* None while unassigned, else {the string as a record}
    text_file,                          \* pmf_analysis_results.txt: None or {results_string}
    barrier_pc,                         \* "start" | "reported" | "raised"
    \* ---- find_target_frames_* (xdatcar_frame_selector.py:21-93)
    trajectory,                         \* per frame the primary and the third-atom distance
    target_bond_lengths,
    initial_tolerance,
    secondary_tolerance,
    third_atom,                         \* TRUE: find_target_frames_with_third_atom
    target_no,                          \* targets already handled by the for loop
    range_calls,                        \* the calls of find_frames_within_distance_range so far
    target_frames,
    ftf_pc                              \* "loop" | "returned"

parserVars == <<report, max_steps, line_no, lambda_values,
                force_values_on_constrained_bond, md_steps, rs_pc>>

cumulVars == <<force_values, cumulative_intervals, cumulative_means,
               cumulative_stds, cfa_pc>>

mainVars == <<iconst_lines, incar_potim, seg_dirs, folders, folder_idx,
              num_constraints, all_lambda_values, all_cv_values, total_md_steps,
              lambda_values_per_cv, mean_force, std_dev, output_file, main_pc>>

pmfVars == <<pmf_dirs, target_steps, pmf_idx, data, df, pmf_pc>>

areaVars == <<area_x, area_y, area_out, area_pc>>

barrierVars == <<pmf_x, pmf_y, pmf_std_dev, activation_barrier, area_upper, area_lower,
                 barrier_roots, results_string, text_file, barrier_pc>>

frameVars == <<trajectory, target_bond_lengths, initial_tolerance, secondary_tolerance,
               third_atom, target_no, range_calls, target_frames, ftf_pc>>

vars == <<parserVars, cumulVars, mainVars, pmfVars, areaVars, barrierVars, frameVars>>

None == {}
Some(v) == {v}
Get(opt) == CHOOSE v \in opt : TRUE

\* The parts of the state a specification does not use.
ParserIdle ==
    /\ report = <<>> /\ max_steps = None /\ line_no = 0
    /\ lambda_values = <<>> /\ force_values_on_constrained_bond = <<>>
    /\ md_steps = 0 /\ rs_pc = "idle"

CumulIdle ==
    /\ force_values = <<>> /\ cumulative_intervals = <<>>
    /\ cumulative_means = <<>> /\ cumulative_stds = <<>> /\ cfa_pc = "idle"

MainIdle ==
    /\ iconst_lines = 0 /\ incar_potim = FALSE /\ seg_dirs = <<>> /\ folders = <<>>
    /\ folder_idx = 0 /\ num_constraints = 0 /\ all_lambda_values = <<>>
    /\ all_cv_values = <<>> /\ total_md_steps = 0 /\ lambda_values_per_cv = <<>>
    /\ mean_force = None /\ std_dev = None /\ output_file = None /\ main_pc = "idle"

(***************************************************************************)
(* Bounds of the model.                                                    *)
(***************************************************************************)
MaxLines == 3           \* lines of a REPORT given to the parser
MaxStepBound == 2       \* largest max_steps given to the parser
MaxSeriesLen == 1001    \* length of a series given to cumulative_force_analysis

\* All sequences over S of length at most n.
SeqUpTo(S, n) == UNION {[1..k -> S] : k \in 0..n}

(***************************************************************************)
(* REPORT lines.  A line is the sequence of its whitespace-separated       *)
(* tokens (what line.split() returns).                                     *)
(***************************************************************************)
LineKinds ==
    { <<"b_m>", "3">>,                  \* bias line, parseable second token
      <<"b_m>", "-1">>,
      <<"b_m>">>,                       \* bias line without a second token
      <<"cc>", "R", "5">>,              \* sample line, parseable third token
      <<"cc>", "R", "*">>,              \* sample line, third token not a number
      <<"cc>", "R">>,                   \* sample line without a third token
      <<"MD", "step", "No.", "1">>,     \* step marker line
      <<>> }                            \* a line with none of the markers

\* float(token): the value, or None when float() raises ValueError.
FloatOf(tok) ==
    CASE tok = "3"  -> Some(3)
      [] tok = "-1" -> Some(-1)
      [] tok = "5"  -> Some(5)
      [] tok = "1"  -> Some(1)
      [] OTHER      -> None

\* "b_m" in line, "cc>" in line, "MD step No." in line
HasBm(line) == \E i \in 1..Len(line) : line[i] = "b_m>"
HasCc(line) == \E i \in 1..Len(line) : line[i] = "cc>"
HasMd(line) ==
    \E i \in 1..(Len(line) - 2) :
        line[i] = "MD" /\ line[i+1] = "step" /\ line[i+2] = "No."

(***************************************************************************)
(* One iteration of the for loop of read_simulation_data on `line`.        *)
(* st = [lam, frc, md, pc]; pc "scan" continues, "break" left the loop,    *)
(* "raised" is an uncaught exception (IndexError or ValueError).           *)
(***************************************************************************)
\* line 20-21: float(line.split()[1]) is not guarded
ScanBm(st, line) ==
    IF ~HasBm(line) THEN st
    ELSE IF Len(line) < 2 \/ FloatOf(line[2]) = None
         THEN [st EXCEPT !.pc = "raised"]
         ELSE [st EXCEPT !.lam = Append(@, Get(FloatOf(line[2])))]

\* line 22-26: only ValueError is caught; line.split()[2] raises IndexError
ScanCc(st, line) ==
    IF ~HasCc(line) \/ st.pc = "raised" THEN st
    ELSE IF Len(line) < 3 THEN [st EXCEPT !.pc = "raised"]
    ELSE IF FloatOf(line[3]) = None THEN st
    ELSE [st EXCEPT !.frc = Append(@, Get(FloatOf(line[3])))]

\* The loop is left one marker late: md_steps > max_steps.
ScanMdLate(st, line, max) ==
    IF ~HasMd(line) \/ st.pc = "raised" THEN st
    ELSE LET n == st.md + 1
         IN  [st EXCEPT !.md = n,
                        !.pc = IF max # None /\ n > Get(max) THEN "break" ELSE @]

\* line 27-31
ScanMd(st, line, max) ==
    IF ~HasMd(line) \/ st.pc = "raised" THEN st
    ELSE LET n == st.md + 1
         IN  [st EXCEPT !.md = n,
                        !.pc = IF max # None /\ n >= Get(max) THEN "break" ELSE @]

ScanLine(st, line, max) == ScanMd(ScanCc(ScanBm(st, line), line), line, max)

ScanStart == [lam |-> <<>>, frc |-> <<>>, md |-> 0, pc |-> "scan"]

\* The whole call: lines 14-33 as a function of the file content.
RECURSIVE ScanFrom(_, _, _, _)
ScanFrom(st, file, i, max) ==
    IF st.pc # "scan" \/ i > Len(file) THEN st
    ELSE ScanFrom(ScanLine(st, file[i], max), file, i + 1, max)

read_simulation_data(file, max) ==
    LET st == ScanFrom(ScanStart, file, 1, max)
    IN  [st EXCEPT !.pc = IF @ = "raised" THEN "raised" ELSE "returned"]

(***************************************************************************)
(* Specification of the parser, line by line.                              *)
(***************************************************************************)
PmfIdle ==
    /\ pmf_dirs = <<>> /\ target_steps = None /\ pmf_idx = 0
    /\ data = <<>> /\ df = None /\ pmf_pc = "idle"

AreaIdle ==
    /\ area_x = <<>> /\ area_y = <<>> /\ area_out = None /\ area_pc = "idle"

BarrierIdle ==
    /\ pmf_x = <<>> /\ pmf_y = <<>> /\ pmf_std_dev = <<>>
    /\ activation_barrier = None /\ area_upper = None /\ area_lower = None
    /\ barrier_roots = <<>> /\ results_string = None /\ text_file = None
    /\ barrier_pc = "idle"

FrameIdle ==
    /\ trajectory = <<>> /\ target_bond_lengths = <<>>
    /\ initial_tolerance = 0 /\ secondary_tolerance = 0 /\ third_atom = FALSE
    /\ target_no = 0 /\ range_calls = <<>> /\ target_frames = <<>> /\ ftf_pc = "idle"

ParserInit ==
    /\ CumulIdle /\ MainIdle /\ PmfIdle /\ AreaIdle /\ BarrierIdle /\ FrameIdle
    /\ report \in SeqUpTo(LineKinds, MaxLines)
    /\ max_steps \in {None} \cup {Some(b) : b \in 1..MaxStepBound}
    /\ line_no = 0
    /\ lambda_values = <<>>
    /\ force_values_on_constrained_bond = <<>>
    /\ md_steps = 0
    /\ rs_pc = "scan"

\* for line in file: one iteration
ReadLine ==
    /\ rs_pc = "scan"
    /\ line_no < Len(report)
    /\ LET st == ScanLine([lam |-> lambda_values,
                           frc |-> force_values_on_constrained_bond,
                           md |-> md_steps, pc |-> "scan"],
                          report[line_no + 1], max_steps)
       IN  /\ lambda_values' = st.lam
           /\ force_values_on_constrained_bond' = st.frc
           /\ md_steps' = st.md
           /\ rs_pc' = IF st.pc = "break" THEN "returned" ELSE st.pc
    /\ line_no' = line_no + 1
    /\ UNCHANGED <<report, max_steps, cumulVars, mainVars, pmfVars, areaVars, barrierVars, frameVars>>

\* the file is exhausted: line 33
ReturnAtEof ==
    /\ rs_pc = "scan"
    /\ line_no = Len(report)
    /\ rs_pc' = "returned"
    /\ UNCHANGED <<report, max_steps, line_no, lambda_values,
                   force_values_on_constrained_bond, md_steps, cumulVars, mainVars, pmfVars, areaVars, barrierVars, frameVars>>

ParserNext == ReadLine \/ ReturnAtEof

SpecParser == ParserInit /\ [][ParserNext]_vars

\* Counts over the file, for the claims about the parser.
CountLines(file, P(_)) == Cardinality({i \in 1..Len(file) : P(file[i])})

CcUnparseable(line) ==
    HasCc(line) /\ (Len(line) < 3 \/ FloatOf(line[3]) = None)

(***************************************************************************)
(* C1: with no step bound the parser never raises, and on return the step  *)
(* count is the number of "MD step No." lines and the number of force      *)
(* samples is the number of "cc>" lines minus the unparseable ones.        *)
(***************************************************************************)
C1_ParserTotal ==
    max_steps = None =>
        /\ rs_pc # "raised"
        /\ rs_pc = "returned" =>
              /\ md_steps = CountLines(report, HasMd)
              /\ Len(force_values_on_constrained_bond) =
                    CountLines(report, HasCc) - CountLines(report, CcUnparseable)

\* the number of marker lines among the first n lines
MarkersUpTo(file, n) == Cardinality({i \in 1..n : HasMd(file[i])})

\* the line holding the B-th marker, or the last line when there are fewer
StopLine(file, B) ==
    IF MarkersUpTo(file, Len(file)) < B THEN Len(file)
    ELSE CHOOSE n \in 1..Len(file) : HasMd(file[n]) /\ MarkersUpTo(file, n) = B

\* the parseable "b_m" and "cc>" values of the first n lines, in file order
RECURSIVE BmValuesOfLines(_, _)
BmValuesOfLines(file, n) ==
    IF n = 0 THEN <<>>
    ELSE BmValuesOfLines(file, n - 1) \o
         (IF HasBm(file[n]) /\ Len(file[n]) >= 2 /\ FloatOf(file[n][2]) # None
          THEN <<Get(FloatOf(file[n][2]))>> ELSE <<>>)

RECURSIVE CcValuesOfLines(_, _)
CcValuesOfLines(file, n) ==
    IF n = 0 THEN <<>>
    ELSE CcValuesOfLines(file, n - 1) \o
         (IF HasCc(file[n]) /\ ~CcUnparseable(file[n])
          THEN <<Get(FloatOf(file[n][3]))>> ELSE <<>>)

(***************************************************************************)
(* C12: with a step bound B >= 1 the scan stops at the line holding the    *)
(* B-th "MD step No." marker: on return the step count is min(K, B), K the *)
(* number of marker lines of the file, and the returned sequences hold the *)
(* "b_m" and "cc>" values of the lines up to that line and of no later     *)
(* line.                                                                   *)
(***************************************************************************)
C12_StopsAtBound ==
    (rs_pc = "returned" /\ max_steps # None) =>
        LET B == Get(max_steps)
            K == CountLines(report, HasMd)
            n == StopLine(report, B)
        IN  /\ md_steps = IF K < B THEN K ELSE B
            /\ line_no = n
            /\ lambda_values = BmValuesOfLines(report, n)
            /\ force_values_on_constrained_bond = CcValuesOfLines(report, n)

\* the bound is reached on line 2 of 3; the bias value of line 3 is not read
C12_Witness ==
    /\ rs_pc = "returned"
    /\ max_steps = Some(1)
    /\ report = << <<"b_m>", "3">>, <<"MD", "step", "No.", "1">>, <<"b_m>", "-1">> >>
    /\ line_no = 2
    /\ md_steps = 1
    /\ lambda_values = <<3>>

(***************************************************************************)
(* Statistics.  np.mean of a sequence is the exact rational sum/len; of an *)
(* empty sequence it is nan (0/0, with a RuntimeWarning, not an exception).*)
(* np.std is the population standard deviation; it is held by its square,  *)
(* the rational (n*sum(x^2) - sum(x)^2) / n^2, so that it stays exact.     *)
(***************************************************************************)
Rat(n, d) == [num |-> n, den |-> d]
NaN == Rat(0, 0)
IsNaN(r) == r.den = 0
\* r = q for rationals with positive denominators
REq(r, q) == r.num * q.den = q.num * r.den
RLe(r, q) == r.num * q.den <= q.num * r.den
RLt(r, q) == r.num * q.den < q.num * r.den

RECURSIVE SumRange(_, _, _)
SumRange(s, lo, hi) ==
    IF lo > hi THEN 0
    ELSE IF lo = hi THEN s[lo]
    ELSE LET mid == (lo + hi) \div 2
         IN  SumRange(s, lo, mid) + SumRange(s, mid + 1, hi)

Sum(s) == SumRange(s, 1, Len(s))
SumSq(s) == SumRange([i \in 1..Len(s) |-> s[i] * s[i]], 1, Len(s))

np_mean(s) == IF Len(s) = 0 THEN NaN ELSE Rat(Sum(s), Len(s))
\* the square of np.std(s)
np_std(s) ==
    IF Len(s) = 0 THEN NaN
    ELSE Rat(Len(s) * SumSq(s) - Sum(s) * Sum(s), Len(s) * Len(s))

\* force_values[:i]
Prefix(s, i) == SubSeq(s, 1, IF i < Len(s) THEN i ELSE Len(s))

\* calculate_statistics, lines 35-38
calculate_statistics(s) == [mean |-> np_mean(s), std |-> np_std(s)]

\* range(start, stop, step) for step > 0
RECURSIVE Range(_, _, _)
Range(start, stop, step) ==
    IF start >= stop THEN <<>>
    ELSE <<start>> \o Range(start + step, stop, step)

Interval == 500

\* The range stops before total_number: a full last block is left out.
cumulative_force_analysis_excl(fv) ==
    LET total_number == Len(fv)
        cuts == IF total_number >= Interval
                THEN Range(Interval, total_number, Interval)
                ELSE <<>>
    IN  [intervals |-> cuts,
         means |-> [j \in 1..Len(cuts) |-> np_mean(Prefix(fv, cuts[j]))],
         stds  |-> [j \in 1..Len(cuts) |-> np_std(Prefix(fv, cuts[j]))]]

\* lines 40-52
cumulative_force_analysis(fv) ==
    LET total_number == Len(fv)
        cuts == IF total_number >= Interval
                THEN Range(Interval, total_number + 1, Interval)
                ELSE <<>>
    IN  [intervals |-> cuts,
         means |-> [j \in 1..Len(cuts) |-> np_mean(Prefix(fv, cuts[j]))],
         stds  |-> [j \in 1..Len(cuts) |-> np_std(Prefix(fv, cuts[j]))]]

(***************************************************************************)
(* Specification of cumulative_force_analysis on series of every length up *)
(* to MaxSeriesLen.  The values of a series follow one of a few patterns   *)
(* (a constant series among them).                                         *)
(***************************************************************************)
SeriesPatterns == {0, 1, 3}
Series(len, pat) == [j \in 1..len |-> ((pat * j) % 5) - 2]

CumulInit ==
    /\ ParserIdle /\ MainIdle /\ PmfIdle /\ AreaIdle /\ BarrierIdle /\ FrameIdle
    /\ force_values \in {Series(len, pat) : len \in 0..MaxSeriesLen, pat \in SeriesPatterns}
    /\ cumulative_intervals = <<>>
    /\ cumulative_means = <<>>
    /\ cumulative_stds = <<>>
    /\ cfa_pc = "call"

CumulativeCall ==
    /\ cfa_pc = "call"
    /\ LET r == cumulative_force_analysis(force_values)
       IN  /\ cumulative_intervals' = r.intervals
           /\ cumulative_means' = r.means
           /\ cumulative_stds' = r.stds
    /\ cfa_pc' = "returned"
    /\ UNCHANGED <<force_values, parserVars, mainVars, pmfVars, areaVars, barrierVars, frameVars>>

CumulNext == CumulativeCall

SpecCumulative == CumulInit /\ [][CumulNext]_vars

(***************************************************************************)
(* C3: the cutoffs are 500, 1000, ..., 500*floor(L/500) (none when         *)
(* L < 500), strictly increasing; the three sequences have equal length;   *)
(* the statistics at cutoff K are those of the first K samples; the        *)
(* L mod 500 trailing samples are in no cumulative point.                  *)
(***************************************************************************)
C3_Cutoffs ==
    cfa_pc = "returned" =>
        LET L == Len(force_values)
            n == Len(cumulative_intervals)
        IN  /\ n = L \div Interval
            /\ \A j \in 1..n : cumulative_intervals[j] = Interval * j
            /\ \A j \in 1..(n - 1) : cumulative_intervals[j] < cumulative_intervals[j + 1]
            /\ Len(cumulative_means) = n /\ Len(cumulative_stds) = n
            /\ \A j \in 1..n :
                  LET K == cumulative_intervals[j]
                      head == SubSeq(force_values, 1, K)
                  IN  /\ K <= L - (L % Interval)
                      /\ cumulative_means[j] = Rat(Sum(head), K)
                      /\ cumulative_stds[j] = Rat(K * SumSq(head) - Sum(head) * Sum(head), K * K)

\* a series of at least 1000 samples with a remainder: two points, tail dropped
C3_Witness ==
    /\ cfa_pc = "returned"
    /\ Len(force_values) = 2 * Interval + 1
    /\ cumulative_intervals = <<Interval, 2 * Interval>>
    /\ cumulative_means[1] # cumulative_means[2]

(***************************************************************************)
(* force_stats_report.txt.  A line is a record; a number written with      *)
(* '.2f' is a rational with denominator 100 (or nan).  Formatting rounds   *)
(* to the nearest hundredth; on an exact tie the digit printed depends on  *)
(* the binary value of the float, so both neighbours are possible.         *)
(***************************************************************************)
Abs(n) == IF n < 0 THEN -n ELSE n

Negated(r) == Rat(-r.num, r.den)

\* f'{r:.2f}'
Round2Set(r) ==
    IF IsNaN(r) THEN {NaN}
    ELSE LET f == (100 * r.num) \div r.den
         IN  {Rat(h, 100) : h \in {x \in {f, f + 1} : 2 * Abs(100 * r.num - x * r.den) <= r.den}}

\* f'{s:.2f}' for the standard deviation s held by its square v
Round2SqrtSet(v) ==
    IF IsNaN(v) THEN {NaN}
    ELSE LET cap == 100 * ((v.num \div v.den) + 1) + 1
         IN  {Rat(h, 100) : h \in {x \in 0..cap :
                  /\ (2 * x + 1) * (2 * x + 1) * v.den >= 40000 * v.num
                  /\ x > 0 => (2 * x - 1) * (2 * x - 1) * v.den <= 40000 * v.num}}

TitleLine(ci, n) == [key |-> "Integrating over Reaction Coordinate Index", val |-> <<ci, n>>]
KeyLine(k, v) == [key |-> k, val |-> v]
TableTitle == [key |-> "Cumulative Analysis Results", val |-> <<>>]
TableHeader == [key |-> "columns", val |-> <<"Interval", "Cumulative", "Mean", "Cumulative", "Std">>]
RowLine(i, m, sd) == [key |-> "row", val |-> <<i, m, sd>>]

\* lines 92-93: the possible renderings of the cumulative table
RowChoices(cum, j) ==
    {RowLine(cum.intervals[j], m, sd) :
        m \in Round2Set(cum.means[j]), sd \in Round2SqrtSet(cum.stds[j])}

FormatRows(cum) ==
    LET n == Len(cum.intervals)
    IN  IF n = 0 THEN {<<>>}
        ELSE {f \in [1..n -> UNION {RowChoices(cum, j) : j \in 1..n}] :
                 \A j \in 1..n : f[j] \in RowChoices(cum, j)}

\* Line 3 holds the negated mean.
WriteReportNegated(ci, n, cv, mean, sd, steps, cum) ==
    {<<TitleLine(ci, n), KeyLine("CV", c), KeyLine("Mean Force", m),
       KeyLine("Standard Deviation", d), KeyLine("MD steps", steps),
       TableTitle, TableHeader>> \o rows :
        c \in Round2Set(cv), m \in Round2Set(Rat(-mean.num, mean.den)),
        d \in Round2SqrtSet(sd), rows \in FormatRows(cum)}

\* lines 82-93: the possible contents of the file after a complete write
WriteReport(ci, n, cv, mean, sd, steps, cum) ==
    {<<TitleLine(ci, n), KeyLine("CV", c), KeyLine("Mean Force", m),
       KeyLine("Standard Deviation", d), KeyLine("MD steps", steps),
       TableTitle, TableHeader>> \o rows :
        c \in Round2Set(cv), m \in Round2Set(mean),
        d \in Round2SqrtSet(sd), rows \in FormatRows(cum)}

(***************************************************************************)
(* main of constrained_force_stats.py                                      *)
(***************************************************************************)
MaxSegLines == 2        \* lines of a REPORT in a segment directory
MaxConstraints == 2     \* lines of ICONST

constraint_index == 0

SegOrder == <<"seg1", "seg2">>          \* the directory names, in sorted order
SegNames == {SegOrder[i] : i \in 1..Len(SegOrder)}

SegLineKinds ==
    { <<"b_m>", "3">>, <<"b_m>", "-1">>, <<"cc>", "R", "5">>, <<"cc>", "R">>,
      <<"MD", "step", "No.", "1">> }

\* a directory: absent, or present with or without a REPORT
DirStates ==
    {[exists |-> FALSE, report |-> None], [exists |-> TRUE, report |-> None]}
    \cup {[exists |-> TRUE, report |-> Some(f)] : f \in SeqUpTo(SegLineKinds, MaxSegLines)}

\* line 63: sorted(glob('seg*'))
SortedGlob(dirs) == SelectSeq(SegOrder, LAMBDA n : dirs[n].exists)

\* The slice starts one element late.
StridedSliceLate(s, start, step) ==
    LET cnt == IF Len(s) > start + 1 THEN (Len(s) - start - 1 + step - 1) \div step ELSE 0
    IN  [k \in 1..cnt |-> s[start + 1 + (k - 1) * step + 1]]

\* s[start::step] for start >= 0, step > 0 (line 78)
StridedSlice(s, start, step) ==
    LET cnt == IF Len(s) > start THEN (Len(s) - start + step - 1) \div step ELSE 0
    IN  [k \in 1..cnt |-> s[start + (k - 1) * step + 1]]

MainInit ==
    /\ ParserIdle /\ PmfIdle /\ AreaIdle /\ BarrierIdle /\ FrameIdle
    /\ force_values = <<>> /\ cfa_pc = "idle"
    /\ cumulative_intervals = <<>> /\ cumulative_means = <<>> /\ cumulative_stds = <<>>
    /\ iconst_lines \in 0..MaxConstraints
    /\ incar_potim \in BOOLEAN
    /\ seg_dirs \in [SegNames -> DirStates]
    /\ folders = <<>>
    /\ folder_idx = 0
    /\ num_constraints = 0
    /\ all_lambda_values = <<>>
    /\ all_cv_values = <<>>
    /\ total_md_steps = 0
    /\ lambda_values_per_cv = <<>>
    /\ mean_force = None
    /\ std_dev = None
    /\ output_file = None
    /\ main_pc = "start"

\* lines 55-69.  get_file_line_count raises on an empty file (i is unbound),
\* float(None) raises when INCAR has no POTIM line, exit() when no folder.
Configure ==
    /\ main_pc = "start"
    /\ IF iconst_lines = 0 \/ ~incar_potim
       THEN /\ main_pc' = "raised"
            /\ UNCHANGED <<num_constraints, folders>>
       ELSE /\ num_constraints' = iconst_lines
            /\ folders' = SortedGlob(seg_dirs)
            /\ main_pc' = IF Len(folders') = 0 THEN "exited" ELSE "loop"
    /\ UNCHANGED <<iconst_lines, incar_potim, seg_dirs, folder_idx, all_lambda_values,
                   all_cv_values, total_md_steps, lambda_values_per_cv, mean_force,
                   std_dev, output_file, parserVars, cumulVars, pmfVars, areaVars, barrierVars, frameVars>>

\* lines 71-76: one iteration of the loop over the folders
ReadFolder ==
    /\ main_pc = "loop"
    /\ folder_idx < Len(folders)
    /\ folder_idx' = folder_idx + 1
    /\ LET rep == seg_dirs[folders[folder_idx + 1]].report
       IN  IF rep = None
           THEN UNCHANGED <<all_lambda_values, all_cv_values, total_md_steps, main_pc>>
           ELSE LET r == read_simulation_data(Get(rep), None)
                IN  IF r.pc = "raised"
                    THEN /\ main_pc' = "raised"
                         /\ UNCHANGED <<all_lambda_values, all_cv_values, total_md_steps>>
                    ELSE /\ all_lambda_values' = all_lambda_values \o r.lam
                         /\ all_cv_values' = all_cv_values \o r.frc
                         /\ total_md_steps' = total_md_steps + r.md
                         /\ UNCHANGED main_pc
    /\ UNCHANGED <<iconst_lines, incar_potim, seg_dirs, folders, num_constraints,
                   lambda_values_per_cv, mean_force, std_dev, output_file,
                   parserVars, cumulVars, pmfVars, areaVars, barrierVars, frameVars>>

\* lines 78-80
Analyse ==
    /\ main_pc = "loop"
    /\ folder_idx = Len(folders)
    /\ LET series == StridedSlice(all_lambda_values, constraint_index, num_constraints)
           st == calculate_statistics(series)
           cum == cumulative_force_analysis(series)
       IN  /\ lambda_values_per_cv' = series
           /\ mean_force' = Some(st.mean)
           /\ std_dev' = Some(st.std)
           /\ cumulative_intervals' = cum.intervals
           /\ cumulative_means' = cum.means
           /\ cumulative_stds' = cum.stds
    /\ main_pc' = "stats"
    /\ UNCHANGED <<iconst_lines, incar_potim, seg_dirs, folders, folder_idx,
                   num_constraints, all_lambda_values, all_cv_values, total_md_steps,
                   output_file, parserVars, force_values, cfa_pc, pmfVars, areaVars, barrierVars, frameVars>>

\* lines 82-93.  The file is created and its first line written before
\* all_cv_values[0] is evaluated, which raises IndexError on an empty list.
WriteFile ==
    /\ main_pc = "stats"
    /\ IF all_cv_values = <<>>
       THEN /\ output_file' = Some(<<TitleLine(constraint_index, num_constraints)>>)
            /\ main_pc' = "raised"
       ELSE /\ \E f \in WriteReport(constraint_index, num_constraints,
                                    Rat(all_cv_values[1], 1), Get(mean_force), Get(std_dev),
                                    total_md_steps,
                                    [intervals |-> cumulative_intervals,
                                     means |-> cumulative_means,
                                     stds |-> cumulative_stds]) :
                   output_file' = Some(f)
            /\ main_pc' = "written"
    /\ UNCHANGED <<iconst_lines, incar_potim, seg_dirs, folders, folder_idx,
                   num_constraints, all_lambda_values, all_cv_values, total_md_steps,
                   lambda_values_per_cv, mean_force, std_dev, parserVars, cumulVars, pmfVars, areaVars, barrierVars, frameVars>>

MainNext == Configure \/ ReadFolder \/ Analyse \/ WriteFile

SpecStats == MainInit /\ [][MainNext]_vars

\* The values main is to concatenate, read off the directories themselves:
\* the second tokens of the "b_m" lines, the third tokens of the "cc>" lines.
BmTokens(file) ==
    LET ls == SelectSeq(file, HasBm) IN [k \in 1..Len(ls) |-> Get(FloatOf(ls[k][2]))]
CcTokens(file) ==
    LET ls == SelectSeq(file, LAMBDA l : HasCc(l) /\ ~CcUnparseable(l))
    IN  [k \in 1..Len(ls) |-> Get(FloatOf(ls[k][3]))]

RECURSIVE ConcatBm(_), ConcatCc(_)
ConcatBm(i) ==
    IF i > Len(SegOrder) THEN <<>>
    ELSE LET d == seg_dirs[SegOrder[i]]
         IN  (IF d.exists /\ d.report # None THEN BmTokens(Get(d.report)) ELSE <<>>)
             \o ConcatBm(i + 1)
ConcatCc(i) ==
    IF i > Len(SegOrder) THEN <<>>
    ELSE LET d == seg_dirs[SegOrder[i]]
         IN  (IF d.exists /\ d.report # None THEN CcTokens(Get(d.report)) ELSE <<>>)
             \o ConcatCc(i + 1)

\* series holds exactly the elements of s at the 0-based positions i, i+n, i+2n, ...
IsEveryNth(series, s, i, n) ==
    /\ Len(series) = Cardinality({p \in 0..(Len(s) - 1) : p >= i /\ (p - i) % n = 0})
    /\ \A k \in 1..Len(series) : series[k] = s[i + (k - 1) * n + 1]

StatsComputed == mean_force # None

(***************************************************************************)
(* C2 (as stated): the series on which the statistics are computed holds   *)
(* the elements at positions i, i+N, i+2N, ... of the concatenation, in    *)
(* sorted directory order, of the "cc>" third-token samples.               *)
(***************************************************************************)
C2_SeriesFromCcSamples ==
    StatsComputed =>
        /\ IsEveryNth(lambda_values_per_cv, ConcatCc(1), constraint_index, num_constraints)
        /\ Get(mean_force) = np_mean(lambda_values_per_cv)

(***************************************************************************)
(* C2 (amended): the series on which the statistics are computed holds the *)
(* elements at positions i, i+N, i+2N, ... of the concatenation, in sorted *)
(* directory order, of the "b_m" second-token values; the "cc>" samples    *)
(* are concatenated apart and enter no statistic.                          *)
(***************************************************************************)
C2_SeriesFromBmValues ==
    StatsComputed =>
        /\ IsEveryNth(lambda_values_per_cv, ConcatBm(1), constraint_index, num_constraints)
        /\ all_cv_values = ConcatCc(1)
        /\ Get(mean_force) = np_mean(lambda_values_per_cv)
        /\ Get(std_dev) = np_std(lambda_values_per_cv)

\* two segments, two constraints: the series takes every second bias value
C2_Witness ==
    /\ main_pc = "stats"
    /\ Len(folders) = 2
    /\ num_constraints = 2
    /\ Len(all_lambda_values) = 4
    /\ Len(lambda_values_per_cv) = 2
    /\ all_lambda_values[2] # all_lambda_values[3]
    /\ lambda_values_per_cv = <<all_lambda_values[1], all_lambda_values[3]>>

(***************************************************************************)
(* C4: with zero directories the pipeline aborts before any statistic or   *)
(* report; it never reaches the statistics or the report writing with an   *)
(* empty concatenated sample sequence.                                     *)
(***************************************************************************)
C4_NeverProceedsOnEmptyData ==
    /\ SortedGlob(seg_dirs) = <<>> => (mean_force = None /\ output_file = None)
    /\ (StatsComputed \/ output_file # None) =>
          ~(all_lambda_values = <<>> /\ all_cv_values = <<>>)

\* the part of C4 the code does implement
C4_AbortsWithoutFolders ==
    SortedGlob(seg_dirs) = <<>> =>
        (main_pc \in {"start", "exited", "raised"} /\ mean_force = None /\ output_file = None)

\* v is r rounded to the nearest hundredth (or both are nan)
IsRounded2(v, r) ==
    IF IsNaN(r) THEN IsNaN(v)
    ELSE v.den = 100 /\ 2 * Abs(v.num * r.den - 100 * r.num) <= r.den
\* v is the square root of sq rounded to the nearest hundredth
IsRoundedSqrt2(v, sq) ==
    IF IsNaN(sq) THEN IsNaN(v)
    ELSE /\ v.den = 100 /\ v.num >= 0
         /\ (2 * v.num + 1) * (2 * v.num + 1) * sq.den >= 40000 * sq.num
         /\ v.num > 0 => (2 * v.num - 1) * (2 * v.num - 1) * sq.den <= 40000 * sq.num

ReportWritten == main_pc = "written"
WrittenLine(k) == Get(output_file)[k]

(***************************************************************************)
(* C5 (as stated): line 3 of force_stats_report.txt holds the negated      *)
(* global mean of the series; the standard deviation and the total step    *)
(* count are stored as computed.                                           *)
(***************************************************************************)
C5_StoredMeanNegated ==
    ReportWritten =>
        /\ WrittenLine(3).key = "Mean Force"
        /\ IsRounded2(WrittenLine(3).val, Negated(np_mean(lambda_values_per_cv)))
        /\ IsRoundedSqrt2(WrittenLine(4).val, np_std(lambda_values_per_cv))
        /\ WrittenLine(5).val = total_md_steps

(***************************************************************************)
(* C5 (amended): line 3 of force_stats_report.txt holds the global mean of *)
(* the series with its sign as computed (not negated), printed to two      *)
(* decimals; line 4 holds the standard deviation printed to two decimals   *)
(* and line 5 the total step count.                                        *)
(***************************************************************************)
C5_StoredMeanAsComputed ==
    ReportWritten =>
        /\ WrittenLine(3).key = "Mean Force"
        /\ IsRounded2(WrittenLine(3).val, np_mean(lambda_values_per_cv))
        /\ WrittenLine(4).key = "Standard Deviation"
        /\ IsRoundedSqrt2(WrittenLine(4).val, np_std(lambda_values_per_cv))
        /\ WrittenLine(5).key = "MD steps"
        /\ WrittenLine(5).val = total_md_steps

\* a report whose mean is not zero and needed rounding
C5_Witness ==
    /\ ReportWritten
    /\ LET m == np_mean(lambda_values_per_cv)
       IN  /\ ~IsNaN(m) /\ m.num # 0 /\ (100 * m.num) % m.den # 0
           /\ WrittenLine(3).val.num > 0
    /\ WrittenLine(4).val.num > 0

(***************************************************************************)
(* pmf_analysis.py: read_force_stats and the module-level aggregation.     *)
(***************************************************************************)
\* float(line.split(':')[1].strip()): the number, or None when this raises
\* (no colon: IndexError; no number after the first colon: ValueError)
FloatAfterColon(line) ==
    IF line.key \in {"CV", "Mean Force", "Standard Deviation"} THEN Some(line.val)
    ELSE IF line.key = "MD steps" THEN Some(Rat(line.val, 1))
    ELSE None

\* int(line.split(':')[1].strip())
IntAfterColon(line) == IF line.key = "MD steps" THEN Some(line.val) ELSE None

\* len(line.split())
PartsLen(line) ==
    CASE line.key = "row" -> 3
      [] line.key = "columns" -> 5
      [] line.key = "CV" -> 2
      [] line.key = "Integrating over Reaction Coordinate Index" -> 13
      [] OTHER -> 3

\* np.around(v, 2)
np_around2(v) == CHOOSE w \in Round2Set(v) : TRUE

NoStats == [cv |-> None, mf |-> None, sd |-> None, md |-> None]

\* lines 32-37: the loop over lines[6:], from the 1-based line i on.
\* int(parts[0]) raises ValueError on a three-token line that is no table row.
RECURSIVE ScanRows(_, _, _, _)
ScanRows(r, lines, i, target) ==
    IF r.pc = "raised" \/ i > Len(lines) THEN r
    ELSE LET line == lines[i]
         IN  IF PartsLen(line) # 3 THEN ScanRows(r, lines, i + 1, target)
             ELSE IF line.key # "row" THEN [r EXCEPT !.pc = "raised"]
             ELSE IF target # None /\ line.val[1] = Get(target)
                  THEN ScanRows([r EXCEPT !.stats.mf = Some(Negated(line.val[2])),
                                          !.stats.sd = Some(line.val[3]),
                                          !.stats.md = Some(Get(target))],
                                lines, i + 1, target)
                  ELSE ScanRows(r, lines, i + 1, target)

\* lines 18-39
read_force_stats(lines, target) ==
    IF Len(lines) <= 2 THEN [pc |-> "returned", stats |-> NoStats]
    ELSE IF FloatAfterColon(lines[2]) = None THEN [pc |-> "raised", stats |-> NoStats]
    ELSE LET s1 == [NoStats EXCEPT !.cv = FloatAfterColon(lines[2])]
             r1 == IF target # None THEN [pc |-> "returned", stats |-> s1]
                   ELSE IF \/ FloatAfterColon(lines[3]) = None
                           \/ Len(lines) < 4 \/ FloatAfterColon(lines[4]) = None
                           \/ Len(lines) < 5 \/ IntAfterColon(lines[5]) = None
                        THEN [pc |-> "raised", stats |-> s1]
                        ELSE [pc |-> "returned",
                              stats |-> [s1 EXCEPT
                                  !.mf = Some(Negated(np_around2(Get(FloatAfterColon(lines[3]))))),
                                  !.sd = FloatAfterColon(lines[4]),
                                  !.md = IntAfterColon(lines[5])]]
         IN  ScanRows(r1, lines, 7, target)

EmptyData == [cv |-> <<>>, mf |-> <<>>, sd |-> <<>>, md |-> <<>>]

\* lines 88-91: the four appends; stats[key] raises KeyError on a missing key,
\* after the appends before it have been done.
AppendStats(d, st) ==
    IF st.cv = None THEN [pc |-> "raised", data |-> d]
    ELSE LET d1 == [d EXCEPT !.cv = Append(@, Get(st.cv))]
         IN  IF st.mf = None THEN [pc |-> "raised", data |-> d1]
             ELSE LET d2 == [d1 EXCEPT !.mf = Append(@, Get(st.mf))]
                  IN  IF st.sd = None THEN [pc |-> "raised", data |-> d2]
                      ELSE LET d3 == [d2 EXCEPT !.sd = Append(@, Get(st.sd))]
                           IN  IF st.md = None THEN [pc |-> "raised", data |-> d3]
                               ELSE [pc |-> "loop",
                                     data |-> [d3 EXCEPT !.md = Append(@, Get(st.md))]]

\* line 94: pd.DataFrame(data), one row per index
DataFrame(d) ==
    [i \in 1..Len(d.cv) |-> [cv |-> d.cv[i], mf |-> d.mf[i], sd |-> d.sd[i], md |-> d.md[i]]]

RowOrders(n) == {f \in [1..n -> 1..n] : \A i, j \in 1..n : f[i] = f[j] => i = j}

\* The rows are left in the order of the scan.
sort_values_skipped(rows) == {rows}

\* line 97: df.sort_values(by CV).  The default sort is not stable, so rows
\* with equal CV may come out in any order.
sort_values(rows) ==
    {t \in {[i \in 1..Len(rows) |-> rows[f[i]]] : f \in RowOrders(Len(rows))} :
        \A i \in 1..(Len(t) - 1) : RLe(t[i].cv, t[i + 1].cv)}

(***************************************************************************)
(* The directories matching "[0-9].[0-9][0-9]_*": each has no report file, *)
(* a report as the writer leaves it, or a report cut short.                *)
(***************************************************************************)
MaxDirs == 3            \* matching directories

PmfCVs == {70, 95, 120}                 \* bond lengths, in hundredths
PmfForces == {-150, 200}                \* mean forces as stored, in hundredths
TruncatedLens == {2, 4}
TargetChoices == {None, Some(Interval)}

MakeReport(cv, mf, withRow) ==
    LET sd == IF mf < 0 THEN 25 ELSE 40
    IN  <<TitleLine(constraint_index, 1), KeyLine("CV", Rat(cv, 100)),
          KeyLine("Mean Force", Rat(mf, 100)), KeyLine("Standard Deviation", Rat(sd, 100)),
          KeyLine("MD steps", IF withRow THEN 600 ELSE 400), TableTitle, TableHeader>>
        \o (IF withRow THEN <<RowLine(Interval, Rat(mf + 10, 100), Rat(sd + 5, 100))>>
            ELSE <<>>)

WrittenReports == {MakeReport(cv, mf, w) : cv \in PmfCVs, mf \in PmfForces, w \in BOOLEAN}
TruncatedReports == {SubSeq(MakeReport(95, -150, TRUE), 1, k) : k \in TruncatedLens}
PmfDirStates == {None} \cup {Some(r) : r \in WrittenReports \cup TruncatedReports}

PmfInit ==
    /\ ParserIdle /\ CumulIdle /\ MainIdle /\ AreaIdle /\ BarrierIdle /\ FrameIdle
    /\ pmf_dirs \in SeqUpTo(PmfDirStates, MaxDirs)
    /\ target_steps \in TargetChoices
    /\ pmf_idx = 0
    /\ data = EmptyData
    /\ df = None
    /\ pmf_pc = "loop"

\* lines 84-91: one iteration of the loop over the matching directories
ReadDirectory ==
    /\ pmf_pc = "loop"
    /\ pmf_idx < Len(pmf_dirs)
    /\ pmf_idx' = pmf_idx + 1
    /\ LET file == pmf_dirs[pmf_idx + 1]
       IN  IF file = None
           THEN UNCHANGED <<data, pmf_pc>>
           ELSE LET r == read_force_stats(Get(file), target_steps)
                IN  IF r.pc = "raised"
                    THEN pmf_pc' = "raised" /\ UNCHANGED data
                    ELSE LET a == AppendStats(data, r.stats)
                         IN  data' = a.data /\ pmf_pc' = a.pc
    /\ UNCHANGED <<pmf_dirs, target_steps, df, parserVars, cumulVars, mainVars, areaVars, barrierVars, frameVars>>

\* lines 94-102
Assemble ==
    /\ pmf_pc = "loop"
    /\ pmf_idx = Len(pmf_dirs)
    /\ \E t \in sort_values(DataFrame(data)) : df' = Some(t)
    /\ pmf_pc' = "assembled"
    /\ UNCHANGED <<pmf_dirs, target_steps, pmf_idx, data, parserVars, cumulVars, mainVars,
                   areaVars, barrierVars, frameVars>>

PmfNext == ReadDirectory \/ Assemble

SpecPMF == PmfInit /\ [][PmfNext]_vars

\* A report is valid when it holds what the reader is asked for.
HasTargetRow(lines, target) ==
    \E k \in 7..Len(lines) : lines[k].key = "row" /\ lines[k].val[1] = Get(target)
ValidReport(lines, target) ==
    IF target = None THEN Len(lines) >= 5
    ELSE Len(lines) >= 3 /\ HasTargetRow(lines, target)
\* the row a valid report stands for
ExpectedRow(lines, target) ==
    IF target = None
    THEN [cv |-> lines[2].val, mf |-> Negated(lines[3].val), sd |-> lines[4].val,
          md |-> lines[5].val]
    ELSE LET k == CHOOSE k \in 7..Len(lines) :
                      lines[k].key = "row" /\ lines[k].val[1] = Get(target)
         IN  [cv |-> lines[2].val, mf |-> Negated(lines[k].val[2]), sd |-> lines[k].val[3],
              md |-> Get(target)]

ValidDirs ==
    {i \in 1..Len(pmf_dirs) : pmf_dirs[i] # None /\ ValidReport(Get(pmf_dirs[i]), target_steps)}
InvalidDirs ==
    {i \in 1..Len(pmf_dirs) : pmf_dirs[i] # None /\ ~ValidReport(Get(pmf_dirs[i]), target_steps)}

(***************************************************************************)
(* C6: a directory whose report is missing or malformed contributes no row *)
(* and no partial row, and the aggregation goes on with the remaining      *)
(* directories without raising.                                            *)
(***************************************************************************)
C6_SkipAndContinue ==
    /\ pmf_pc # "raised"
    /\ Len(data.cv) = Len(data.mf) /\ Len(data.mf) = Len(data.sd) /\ Len(data.sd) = Len(data.md)
    /\ pmf_pc = "assembled" => Len(Get(df)) = Cardinality(ValidDirs)

\* the part of C6 the code does implement: a missing report file is skipped
C6_MissingFileSkipped ==
    (InvalidDirs = {} /\ pmf_pc # "loop") =>
        (pmf_pc = "assembled" /\ Len(Get(df)) = Cardinality(ValidDirs))

(***************************************************************************)
(* C7: whatever the order of the scan, the assembled table holds one row   *)
(* per directory with a valid report, in ascending order of bond length,   *)
(* each row with its own mean force, standard deviation and step count.    *)
(***************************************************************************)
C7_TableSorted ==
    pmf_pc = "assembled" =>
        LET t == Get(df)
        IN  /\ Len(t) = Cardinality(ValidDirs)
            /\ \A i \in 1..(Len(t) - 1) : RLe(t[i].cv, t[i + 1].cv)
            /\ \A k \in 1..Len(t) :
                  Cardinality({j \in 1..Len(t) : t[j] = t[k]}) =
                  Cardinality({i \in ValidDirs :
                                  ExpectedRow(Get(pmf_dirs[i]), target_steps) = t[k]})

\* three valid reports scanned in the order 1.20, 0.70, 0.95
C7_Witness ==
    /\ pmf_pc = "assembled"
    /\ Len(pmf_dirs) = 3
    /\ data.cv = <<Rat(120, 100), Rat(70, 100), Rat(95, 100)>>
    /\ Len(Get(df)) = 3
    /\ Get(df)[1].cv = Rat(70, 100) /\ Get(df)[2].cv = Rat(95, 100)
    /\ Get(df)[1].mf # Get(df)[2].mf

(***************************************************************************)
(* pmf_analysis.py: calculate_area.  x and y are integer sequences of the  *)
(* same length (one common unit), results are exact rationals.  A pair of  *)
(* consecutive samples is named by the 1-based position k of its first     *)
(* sample (Python index k - 1).                                            *)
(***************************************************************************)
Norm(n, d) == IF d < 0 THEN Rat(-n, -d) ELSE Rat(n, d)
RAdd(r, q) == Rat(r.num * q.den + q.num * r.den, r.den * q.den)
RSub(r, q) == Rat(r.num * q.den - q.num * r.den, r.den * q.den)
RMul(r, q) == Rat(r.num * q.num, r.den * q.den)
RAbs(r) == Rat(Abs(r.num), r.den)

\* np.sign
Sign(v) == IF v > 0 THEN 1 ELSE IF v < 0 THEN -1 ELSE 0

\* line 43: np.where(np.diff(np.sign(y)))[0], ascending
RECURSIVE CrossingsFrom(_, _)
CrossingsFrom(y, k) ==
    IF k >= Len(y) THEN <<>>
    ELSE (IF Sign(y[k + 1]) # Sign(y[k]) THEN <<k>> ELSE <<>>) \o CrossingsFrom(y, k + 1)
ZeroCrossings(y) == CrossingsFrom(y, 1)

\* lines 46-47
interpolate_zero_crossing(x1, y1, x2, y2) ==
    Norm(x1 * (y2 - y1) - y1 * (x2 - x1), y2 - y1)

\* np.argmin(np.abs(x - r)): the first position of the sample nearest to r
ArgMinDist(x, r) ==
    CHOOSE i \in 1..Len(x) :
        /\ \A j \in 1..Len(x) : Abs(x[i] * r.den - r.num) <= Abs(x[j] * r.den - r.num)
        /\ \A j \in 1..(i - 1) : Abs(x[j] * r.den - r.num) > Abs(x[i] * r.den - r.num)

\* trapz(y[s-1:e], x[s-1:e]) over the samples s..e
RECURSIVE TrapzSum(_, _, _, _)
TrapzSum(x, y, s, e) ==
    IF s >= e THEN 0
    ELSE (x[s + 1] - x[s]) * (y[s] + y[s + 1]) + TrapzSum(x, y, s + 1, e)
trapz(x, y, s, e) == Rat(TrapzSum(x, y, s, e), 2)

\* Determinant of a 3x3 matrix given by rows.
Det3(m) ==
      m[1][1] * (m[2][2] * m[3][3] - m[2][3] * m[3][2])
    - m[1][2] * (m[2][1] * m[3][3] - m[2][3] * m[3][1])
    + m[1][3] * (m[2][1] * m[3][2] - m[2][2] * m[3][1])

RECURSIVE PowerSum(_, _, _, _)
\* sum over the samples i.. of x[i]^k * w[i]
PowerSum(x, w, k, i) ==
    IF i > Len(x) THEN 0
    ELSE (CASE k = 0 -> 1 [] k = 1 -> x[i] [] k = 2 -> x[i] * x[i]
            [] k = 3 -> x[i] * x[i] * x[i] [] OTHER -> x[i] * x[i] * x[i] * x[i]) * w[i]
         + PowerSum(x, w, k, i + 1)

(***************************************************************************)
(* line 51: np.polyfit(x, y, 2), the least-squares parabola a x^2 + b x + c*)
(* of at least three samples with three distinct x.  It solves the normal  *)
(* equations; by Cramer's rule a = da/d, b = db/d, c = dc/d with d > 0.    *)
(***************************************************************************)
polyfit2(x, y) ==
    LET one == [i \in 1..Len(x) |-> 1]
        S(k) == PowerSum(x, one, k, 1)
        T(k) == PowerSum(x, y, k, 1)
    IN  [d  |-> Det3(<<<<S(4), S(3), S(2)>>, <<S(3), S(2), S(1)>>, <<S(2), S(1), S(0)>>>>),
         da |-> Det3(<<<<T(2), S(3), S(2)>>, <<T(1), S(2), S(1)>>, <<T(0), S(1), S(0)>>>>),
         db |-> Det3(<<<<S(4), T(2), S(2)>>, <<S(3), T(1), S(1)>>, <<S(2), T(0), S(0)>>>>),
         dc |-> Det3(<<<<S(4), S(3), T(2)>>, <<S(3), S(2), T(1)>>, <<S(2), S(1), T(0)>>>>)]

\* the sign of b^2 - 4ac
Discriminant(p) == p.db * p.db - 4 * p.da * p.dc

(***************************************************************************)
(* line 53-54: sorted(np.roots(p).real).  A root is mid + sgn * sqrt(rad): *)
(* np.roots drops a zero leading coefficient, so there are two roots only  *)
(* when a # 0; of a complex pair .real keeps the common real part twice.   *)
(***************************************************************************)
Root(mid, rad, sgn) == [mid |-> mid, rad |-> rad, sgn |-> sgn]
FitRoots(p) ==
    IF p.da = 0
    THEN IF p.db = 0 THEN <<>> ELSE <<Root(Norm(-p.dc, p.db), Rat(0, 1), 1)>>
    ELSE LET mid == Norm(-p.db, 2 * p.da)
             rad == IF Discriminant(p) > 0
                    THEN Rat(Discriminant(p), 4 * p.da * p.da) ELSE Rat(0, 1)
         IN  <<Root(mid, rad, -1), Root(mid, rad, 1)>>

(***************************************************************************)
(* lines 57-61: the area under the fitted parabola between the two roots,  *)
(* by the trapezoidal rule on 500 grid points.  When the two roots         *)
(* coincide all grid points coincide and the area is 0; otherwise it is a  *)
(* positive number, kept as the parabola and the grid size it comes from.  *)
(***************************************************************************)
GridPoints == 500
FitArea(p) ==
    IF Discriminant(p) <= 0 THEN Rat(0, 1)
    ELSE [parabola |-> p, grid |-> GridPoints]

\* lines 42-76.  pc "raised": np.polyfit raises TypeError on an empty x.
\* path names the return statement taken.
calculate_area(x, y) ==
    LET zc == ZeroCrossings(y)
    IN  IF Len(zc) >= 2
        THEN LET start == zc[1]
                 end == zc[2]
                 r0 == interpolate_zero_crossing(x[start], y[start], x[start + 1], y[start + 1])
                 r1 == interpolate_zero_crossing(x[end], y[end], x[end + 1], y[end + 1])
                 start_idx == ArgMinDist(x, r0)
                 end_idx == ArgMinDist(x, r1)
             IN  [pc |-> "returned", path |-> "signflip",
                  area |-> Some(RAbs(trapz(x, y, start_idx, end_idx))),
                  roots |-> <<r0, r1>>]
        ELSE IF Len(x) = 0
        THEN [pc |-> "raised", path |-> "fit", area |-> None, roots |-> <<>>]
        ELSE LET p == polyfit2(x, y)
                 roots == FitRoots(p)
             IN  IF Len(roots) >= 2
                 THEN [pc |-> "returned", path |-> "fit",
                       area |-> Some(FitArea(p)), roots |-> roots]
                 ELSE [pc |-> "returned", path |-> "none", area |-> None, roots |-> roots]

(***************************************************************************)
(* Specification of calculate_area on force tables of three or more        *)
(* samples at distinct ascending bond lengths.                             *)
(***************************************************************************)
MaxX == 3               \* largest bond length of a table
MaxForce == 3           \* largest absolute force of a table

Ascending(x) == \A i \in 1..(Len(x) - 1) : x[i] < x[i + 1]

AreaInit ==
    /\ ParserIdle /\ CumulIdle /\ MainIdle /\ PmfIdle /\ BarrierIdle /\ FrameIdle
    /\ area_x \in {x \in UNION {[1..n -> 0..MaxX] : n \in 3..(MaxX + 1)} : Ascending(x)}
    /\ area_y \in [1..Len(area_x) -> (-MaxForce)..MaxForce]
    /\ area_out = None
    /\ area_pc = "call"

CallCalculateArea ==
    /\ area_pc = "call"
    /\ LET r == calculate_area(area_x, area_y)
       IN  /\ area_out' = Some(r)
           /\ area_pc' = r.pc
    /\ UNCHANGED <<area_x, area_y, parserVars, cumulVars, mainVars, pmfVars, barrierVars, frameVars>>

AreaNext == CallCalculateArea

SpecArea == AreaInit /\ [][AreaNext]_vars

Returned == area_pc = "returned"
Result == Get(area_out)

\* the fitted parabola has two real roots
TwoRealRoots(x, y) ==
    LET p == polyfit2(x, y) IN p.da # 0 /\ Discriminant(p) >= 0

(***************************************************************************)
(* C8: with fewer than two sign changes and a fitted parabola without two  *)
(* real roots, the result is the insufficient-data result (area None),     *)
(* never a numeric area.                                                   *)
(***************************************************************************)
C8_InsufficientData ==
    (Returned /\ Len(ZeroCrossings(area_y)) < 2 /\ ~TwoRealRoots(area_x, area_y)) =>
        Result.area = None

\* the part of C8 the code does implement: a fit with fewer than two roots
C8_DegenerateFitIsNone ==
    (Returned /\ Len(ZeroCrossings(area_y)) < 2 /\ polyfit2(area_x, area_y).da = 0) =>
        Result.area = None

\* y has one zero, on a sample strictly inside the table, with the forces
\* of one sign before it and of the other sign after it
SingleCrossingOnSample(y) ==
    \E k \in 2..(Len(y) - 1) :
        /\ y[k] = 0
        /\ \A i \in 1..(k - 1) : Sign(y[i]) = Sign(y[1]) /\ y[i] # 0
        /\ \A i \in (k + 1)..Len(y) : Sign(y[i]) = -Sign(y[1])

(***************************************************************************)
(* C9: on a force curve with a single zero crossing that falls exactly on  *)
(* a sample, the sign-flip path is not taken: the result comes from the    *)
(* quadratic fallback or is the insufficient-data result.                  *)
(***************************************************************************)
C9_SingleCrossingNotSignFlip ==
    (Returned /\ SingleCrossingOnSample(area_y)) => Result.path # "signflip"

\* every force is non-zero and the sign changes exactly twice
TwoSignChanges(y) ==
    /\ \A i \in 1..Len(y) : y[i] # 0
    /\ Len(ZeroCrossings(y)) = 2

\* The area enclosed by the piecewise-linear curve between its two crossing
\* positions: two end triangles and the trapezoids between them.
ExactArea(x, y) ==
    LET zc == ZeroCrossings(y)
        s == zc[1]
        e == zc[2]
        r0 == interpolate_zero_crossing(x[s], y[s], x[s + 1], y[s + 1])
        r1 == interpolate_zero_crossing(x[e], y[e], x[e + 1], y[e + 1])
        head == RMul(RSub(Rat(x[s + 1], 1), r0), Rat(y[s + 1], 2))
        tail == RMul(RSub(r1, Rat(x[e], 1)), Rat(y[e], 2))
    IN  RAbs(RAdd(RAdd(head, trapz(x, y, s + 1, e)), tail))

(***************************************************************************)
(* C10: for a table with exactly two sign changes the returned area is the *)
(* exact area enclosed by the piecewise-linear curve between the two       *)
(* interpolated crossing positions.                                        *)
(***************************************************************************)
C10_ExactAreaBetweenCrossings ==
    (Returned /\ TwoSignChanges(area_y)) =>
        /\ Result.path = "signflip"
        /\ REq(Get(Result.area), ExactArea(area_x, area_y))

\* what the code does integrate: the samples nearest to the two crossings
C10_AreaBetweenNearestSamples ==
    (Returned /\ TwoSignChanges(area_y)) =>
        /\ Result.path = "signflip"
        /\ \E s, e \in 1..Len(area_x) :
              Get(Result.area) = RAbs(trapz(area_x, area_y, s, e))

(***************************************************************************)
(* pmf_analysis.py, lines 100-128: the three area computations and the     *)
(* result string.  The table is the sorted DataFrame in one common integer *)
(* unit: three samples at distinct ascending bond lengths, or no sample at *)
(* all (no directory matched).  An area is None or {number}; a variable    *)
(* not yet assigned is None.                                               *)
(***************************************************************************)
MaxStd == 1             \* largest standard deviation of a table

\* y + std_dev (sgn = 1) and y - std_dev (sgn = -1), element by element
Shifted(y, s, sgn) == [i \in 1..Len(y) |-> y[i] + sgn * s[i]]

\* line 112: np.abs(area_upper - area_lower) / 2.  The area of a fitted
\* parabola with distinct roots stays symbolic, and so does the error then.
activation_barrier_error_of(u, l) ==
    IF (DOMAIN u = {"num", "den"}) /\ (DOMAIN l = {"num", "den"})
    THEN RMul(RAbs(RSub(u, l)), Rat(1, 2))
    ELSE [upper |-> u, lower |-> l, halved |-> TRUE]

\* lines 110-119.  f'{activation_barrier:.2f}' raises TypeError when
\* activation_barrier is None.  The record holds the values the string is
\* formatted from; roots are the ones appended by line 118-119.
ResultsString(barrier, upper, lower, roots) ==
    LET tail == IF Len(roots) >= 2 THEN <<roots[1], roots[2]>> ELSE <<>>
    IN  IF upper # None /\ lower # None
        THEN IF barrier = None
             THEN [pc |-> "raised", string |-> None]
             ELSE [pc |-> "reported",
                   string |-> Some([kind |-> "barrier", value |-> Get(barrier),
                                    error |-> activation_barrier_error_of(Get(upper), Get(lower)),
                                    roots |-> tail])]
        ELSE [pc |-> "reported",
              string |-> Some([kind |-> "insufficient", roots |-> tail])]

BarrierInit ==
    /\ ParserIdle /\ CumulIdle /\ MainIdle /\ PmfIdle /\ AreaIdle /\ FrameIdle
    /\ pmf_x \in {<<>>} \cup {x \in [1..3 -> 0..MaxX] : Ascending(x)}
    /\ pmf_y \in [1..Len(pmf_x) -> (-MaxForce)..MaxForce]
    /\ pmf_std_dev \in [1..Len(pmf_x) -> 0..MaxStd]
    /\ activation_barrier = None /\ area_upper = None /\ area_lower = None
    /\ barrier_roots = <<>> /\ results_string = None /\ text_file = None
    /\ barrier_pc = "start"

\* lines 105-128.  A call of calculate_area that raises ends the script
\* with the later variables unassigned.
ReportBarrier ==
    /\ barrier_pc = "start"
    /\ LET mean == calculate_area(pmf_x, pmf_y)
           upper == calculate_area(pmf_x, Shifted(pmf_y, pmf_std_dev, 1))
           lower == calculate_area(pmf_x, Shifted(pmf_y, pmf_std_dev, -1))
       IN  IF mean.pc = "raised"
           THEN /\ barrier_pc' = "raised"
                /\ UNCHANGED <<activation_barrier, area_upper, area_lower, barrier_roots,
                               results_string, text_file>>
           ELSE IF upper.pc = "raised" \/ lower.pc = "raised"
           THEN /\ barrier_pc' = "raised"
                /\ activation_barrier' = Some(mean.area)
                /\ barrier_roots' = mean.roots
                /\ area_upper' = IF upper.pc = "raised" THEN None ELSE Some(upper.area)
                /\ UNCHANGED <<area_lower, results_string, text_file>>
           ELSE LET r == ResultsString(mean.area, upper.area, lower.area, mean.roots)
                IN  /\ activation_barrier' = Some(mean.area)
                    /\ barrier_roots' = mean.roots
                    /\ area_upper' = Some(upper.area)
                    /\ area_lower' = Some(lower.area)
                    /\ results_string' = r.string
                    /\ text_file' = r.string
                    /\ barrier_pc' = r.pc
    /\ UNCHANGED <<pmf_x, pmf_y, pmf_std_dev, parserVars, cumulVars, mainVars, pmfVars,
                   areaVars, frameVars>>

BarrierNext == ReportBarrier

SpecBarrier == BarrierInit /\ [][BarrierNext]_vars

\* the three calls of calculate_area have returned
AreasReturned ==
    activation_barrier # None /\ area_upper # None /\ area_lower # None

AllNumeric ==
    /\ AreasReturned
    /\ Get(activation_barrier) # None /\ Get(area_upper) # None /\ Get(area_lower) # None

AnyInsufficient ==
    /\ AreasReturned
    /\ (Get(activation_barrier) = None \/ Get(area_upper) = None \/ Get(area_lower) = None)

NumericReported ==
    barrier_pc = "reported" /\ Get(results_string).kind = "barrier"

MessageReported ==
    barrier_pc = "reported" /\ Get(results_string).kind = "insufficient"

(***************************************************************************)
(* C11: a numeric activation barrier, with the uncertainty                 *)
(* |area_upper - area_lower| / 2, is reported only when all three area     *)
(* computations returned a numeric area; whenever one of the three         *)
(* returned the insufficient-data result the script reports the            *)
(* insufficient-data message and completes without raising.                *)
(***************************************************************************)
C11_NumericOnlyWhenAllNumeric ==
    /\ NumericReported =>
          /\ AllNumeric
          /\ Get(results_string).value = Get(Get(activation_barrier))
          /\ Get(results_string).error =
                activation_barrier_error_of(Get(Get(area_upper)), Get(Get(area_lower)))
    /\ AnyInsufficient => MessageReported

\* the part of C11 the code does implement: the shifted curves are tested
C11_MessageWhenShiftedAreaMissing ==
    (AreasReturned /\ (Get(area_upper) = None \/ Get(area_lower) = None)) => MessageReported

\* the mean curve alone has no area: the format of line 113 raises
C11_MeanAreaMissingRaises ==
    (AreasReturned /\ Get(activation_barrier) = None
        /\ Get(area_upper) # None /\ Get(area_lower) # None) => barrier_pc = "raised"

(***************************************************************************)
(* xdatcar_frame_selector.py: find_frames_within_distance_range and the    *)
(* two find_target_frames_* functions, which differ only in the distance   *)
(* np.argmin is taken over.  A frame is the pair of distances the code     *)
(* reads from it: primary = get_distance(atom1, atom2), third =            *)
(* get_distance(atom1, atom3); lengths are integers in one common unit.    *)
(* A frame is named by its 1-based position (Python index + 1).            *)
(***************************************************************************)
MaxFrames == 2          \* frames of a trajectory
MaxTargets == 2         \* entries of target_bond_lengths

BondLengths == {1, 2, 4}
ThirdLengths == {1, 2}
\* (initial_tolerance, secondary_tolerance)
TolerancePairs == {<<1, 2>>, <<2, 3>>, <<2, 1>>}

\* The bound is included: <= in place of <.
RECURSIVE find_frames_within_distance_range_incl(_, _, _, _)
find_frames_within_distance_range_incl(traj, i, target_length, tolerance) ==
    IF i > Len(traj) THEN <<>>
    ELSE (IF Abs(traj[i].primary - target_length) <= tolerance THEN <<i>> ELSE <<>>)
         \o find_frames_within_distance_range_incl(traj, i + 1, target_length, tolerance)

\* lines 32-34: the frames from position i on within the range, ascending
RECURSIVE find_frames_within_distance_range(_, _, _, _)
find_frames_within_distance_range(traj, i, target_length, tolerance) ==
    IF i > Len(traj) THEN <<>>
    ELSE (IF Abs(traj[i].primary - target_length) < tolerance THEN <<i>> ELSE <<>>)
         \o find_frames_within_distance_range(traj, i + 1, target_length, tolerance)

\* np.argmin of a non-empty list: the first position of its minimum
np_argmin(vals) ==
    CHOOSE k \in 1..Len(vals) :
        /\ \A j \in 1..Len(vals) : vals[k] <= vals[j]
        /\ \A j \in 1..(k - 1) : vals[j] > vals[k]

\* the distance minimised on line 57 (between_two_atoms) or 87 (with_third_atom)
Criterion(frame, third) == IF third THEN frame.third ELSE frame.primary

\* lines 50-61 / 80-91 for one target: the calls made and the entry appended
find_target_frame(traj, target_length, tol1, tol2, third) ==
    LET first == find_frames_within_distance_range(traj, 1, target_length, tol1)
        second == find_frames_within_distance_range(traj, 1, target_length, tol2)
        frames_within_range == IF first = <<>> THEN second ELSE first
        calls == <<[tolerance |-> "initial", frames |-> first]>> \o
                 (IF first = <<>> THEN <<[tolerance |-> "secondary", frames |-> second]>>
                  ELSE <<>>)
    IN  [calls |-> calls,
         entry |-> IF frames_within_range = <<>> THEN <<>>
                   ELSE LET frame_with_min_bond ==
                                frames_within_range[np_argmin(
                                    [k \in 1..Len(frames_within_range) |->
                                        Criterion(traj[frames_within_range[k]], third)])]
                        IN  <<[frame |-> frame_with_min_bond,
                               distance |-> traj[frame_with_min_bond].primary]>>]

FrameInit ==
    /\ ParserIdle /\ CumulIdle /\ MainIdle /\ PmfIdle /\ AreaIdle /\ BarrierIdle
    /\ third_atom \in BOOLEAN
    /\ trajectory \in SeqUpTo([primary : BondLengths,
                               third : IF third_atom THEN ThirdLengths ELSE {0}], MaxFrames)
    /\ target_bond_lengths \in SeqUpTo(BondLengths, MaxTargets)
    /\ \E t \in TolerancePairs : initial_tolerance = t[1] /\ secondary_tolerance = t[2]
    /\ target_no = 0
    /\ range_calls = <<>>
    /\ target_frames = <<>>
    /\ ftf_pc = "loop"

\* one iteration of `for target_length in target_bond_lengths`
FindTargetFrame ==
    /\ ftf_pc = "loop"
    /\ target_no < Len(target_bond_lengths)
    /\ LET r == find_target_frame(trajectory, target_bond_lengths[target_no + 1],
                                  initial_tolerance, secondary_tolerance, third_atom)
       IN  /\ range_calls' = range_calls \o
                  [k \in 1..Len(r.calls) |->
                      [target |-> target_no + 1, tolerance |-> r.calls[k].tolerance,
                       frames |-> r.calls[k].frames]]
           /\ target_frames' = target_frames \o r.entry
    /\ target_no' = target_no + 1
    /\ UNCHANGED <<trajectory, target_bond_lengths, initial_tolerance, secondary_tolerance,
                   third_atom, ftf_pc, parserVars, cumulVars, mainVars, pmfVars, areaVars,
                   barrierVars>>

\* line 63 / 93
ReturnTargetFrames ==
    /\ ftf_pc = "loop"
    /\ target_no = Len(target_bond_lengths)
    /\ ftf_pc' = "returned"
    /\ UNCHANGED <<trajectory, target_bond_lengths, initial_tolerance, secondary_tolerance,
                   third_atom, target_no, range_calls, target_frames, parserVars, cumulVars,
                   mainVars, pmfVars, areaVars, barrierVars>>

FrameNext == FindTargetFrame \/ ReturnTargetFrames

SpecFrames == FrameInit /\ [][FrameNext]_vars

\* frame i lies strictly within tol of target k
Within(i, k, tol) == Abs(trajectory[i].primary - target_bond_lengths[k]) < tol
AnyWithin(k, tol) == \E i \in 1..Len(trajectory) : Within(i, k, tol)

\* the tolerance that decides target k
ToleranceUsed(k) ==
    IF AnyWithin(k, initial_tolerance) THEN initial_tolerance ELSE secondary_tolerance

\* the handled targets that have a frame within the tolerance used
FoundTargets == {k \in 1..target_no : AnyWithin(k, ToleranceUsed(k))}
\* the j-th of them in target order
FoundTarget(j) == CHOOSE k \in FoundTargets : Cardinality({m \in FoundTargets : m <= k}) = j

(***************************************************************************)
(* C13: the result holds at most one (frame, distance) entry per target,   *)
(* in target order; the secondary tolerance is consulted only when no      *)
(* frame lies within the initial tolerance; every selected frame's primary *)
(* distance differs from its target by strictly less than the tolerance    *)
(* used, and the selected frame minimises the secondary criterion among    *)
(* the frames within that tolerance.                                       *)
(***************************************************************************)
C13_OneFramePerTarget ==
    /\ Len(target_frames) = Cardinality(FoundTargets)
    /\ \A c \in 1..Len(range_calls) :
          range_calls[c].tolerance = "secondary" =>
              ~AnyWithin(range_calls[c].target, initial_tolerance)
    /\ \A j \in 1..Len(target_frames) :
          LET k == FoundTarget(j)
              e == target_frames[j]
          IN  /\ e.frame \in 1..Len(trajectory)
              /\ e.distance = trajectory[e.frame].primary
              /\ Abs(e.distance - target_bond_lengths[k]) < ToleranceUsed(k)
              /\ \A i \in 1..Len(trajectory) :
                    Within(i, k, ToleranceUsed(k)) =>
                        Criterion(trajectory[e.frame], third_atom)
                            <= Criterion(trajectory[i], third_atom)

\* Two targets: the first is decided by the initial tolerance and its
\* selected frame is not the frame nearest to it; the second has no frame
\* within the initial tolerance and is decided by the secondary one.
C13_Witness ==
    /\ ftf_pc = "returned"
    /\ third_atom
    /\ Len(target_bond_lengths) = 2
    /\ Len(target_frames) = 2
    /\ Len(range_calls) = 3
    /\ range_calls[3].tolerance = "secondary"
    /\ \E i \in 1..Len(trajectory) :
          Abs(trajectory[i].primary - target_bond_lengths[1])
              < Abs(target_frames[1].distance - target_bond_lengths[1])

====
